---------------------------- MODULE Spec2Model ----------------------------
(***************************************************************************)
(* A model of the CDR ingestion service: the record validator of           *)
(* app/services/cdr_processor.py, the session store and graph builder of   *)
(* app/services/session_manager.py, and the retry wrapper of               *)
(* app/database.py.                                                        *)
(*                                                                         *)
(* Strings are TLA+ strings.  Python's None (a NULL column) is the value   *)
(* NULL.  The persistence layer (SQLAlchemy over the database) is the      *)
(* store the service talks to: a table of sessions and a table of CDR      *)
(* records kept in insertion order, every column that add_cdr_data         *)
(* assigns being a column of the record.  A database call may raise; the   *)
(* places where it may are the `fault` inputs of the actions.              *)
(***************************************************************************)
EXTENDS Integers, Sequences, FiniteSets, TLC

VARIABLES
    recs,          \* SpecBuild: the CDR records handed to _update_graph
    built,         \* SpecBuild: what _update_graph made of them
    rows,          \* SpecValidate: the table given to the validator
    kept,          \* SpecValidate: the validator's outcome for it
    sessions,      \* Spec: ids of the rows of table `sessions`
    cdr_records,   \* Spec: session id -> its rows of table `cdr_records`
    graph_data,    \* Spec: session id -> Session.graph_data
    record_count,  \* Spec: session id -> Session.record_count
    many,          \* Spec: the process_multiple_cdr_files call under way
    last,          \* Spec: the last step made and what it returned
    session_cache, \* SpecSessions: SessionManager._session_cache
    wrapper,       \* SpecRetry: a call of a handle_db_connection wrapper
    inflight       \* SpecRace: the add_cdr_data calls under way

vars == <<recs, built, rows, kept, sessions, cdr_records, graph_data,
          record_count, many, last, session_cache, wrapper, inflight>>

buildVars == <<recs, built>>
validateVars == <<rows, kept>>
storeVars == <<sessions, cdr_records, graph_data, record_count, many, last,
               session_cache, inflight>>

NULL == "<NULL>"

\* Python truthiness of an optional string column: None and "" are falsy.
Truthy(v) == v # NULL /\ v # ""

Contains(s, x) == \E i \in DOMAIN s : s[i] = x

-----------------------------------------------------------------------------
(***************************************************************************)
(* networkx.Graph as _update_graph uses it: nodes in insertion order, one  *)
(* attribute dict per node, per node its neighbours in insertion order,    *)
(* and ONE attribute dict per unordered pair of adjacent nodes.            *)
(***************************************************************************)

EmptyGraph == [nodes |-> <<>>, nattr |-> <<>>, adj |-> <<>>, eattr |-> <<>>]

NoNodeAttr == [set |-> FALSE, type |-> "", label |-> ""]

NoEdgeAttr == [keys |-> {}, weight |-> 0, calls |-> <<>>, relationship |-> ""]

HasNode(G, n) == n \in DOMAIN G.nattr

EdgeKey(u, v) == {u, v}

HasEdge(G, u, v) == EdgeKey(u, v) \in DOMAIN G.eattr

\* G.add_node(n) with no attributes: a new node gets an empty attribute dict.
TouchNode(G, n) ==
    IF HasNode(G, n) THEN G
    ELSE [G EXCEPT !.nodes = Append(@, n),
                   !.nattr = (n :> NoNodeAttr) @@ @,
                   !.adj = (n :> <<>>) @@ @]

\* G.add_node(n, type=t, label=l): creates the node or updates its attributes.
AddNode(G, n, t, l) ==
    LET H == TouchNode(G, n)
    IN  [H EXCEPT !.nattr[n] = [set |-> TRUE, type |-> t, label |-> l]]

\* adj[u][v] = datadict: a new key goes last, an old key keeps its place.
Neighbour(G, u, v) ==
    IF Contains(G.adj[u], v) THEN G ELSE [G EXCEPT !.adj[u] = Append(@, v)]

\* The attribute dict that G.add_edge(u, v, **attr) updates: the edge's own,
\* or the empty dict for a new edge.
EdgeAttr(G, u, v) ==
    IF HasEdge(G, u, v) THEN G.eattr[EdgeKey(u, v)] ELSE NoEdgeAttr

\* G.add_edge(u, v, **attr), where updated is the edge's attribute dict after
\* dict.update(attr).
AddEdge(G, u, v, updated) ==
    LET H == TouchNode(TouchNode(G, u), v)
        K == Neighbour(Neighbour(H, u, v), v, u)
    IN  [K EXCEPT !.eattr = (EdgeKey(u, v) :> updated) @@ @]

-----------------------------------------------------------------------------
(***************************************************************************)
(* SessionManager._update_graph: the graph of a session's CDR records.     *)
(* A CDR record is a row of table cdr_records:                             *)
(*   [call_type, anumber, bnumber, date, duration, imei, imei_type, imsi,  *)
(*    lac_ci, sitename, latitude, longitude]                               *)
(* `date` is a datetime, here the index of an instant.                     *)
(***************************************************************************)

Dates == {1, 2, 3}

\* datetime.isoformat() of the instants of the model.
IsoFormat(d) ==
    CASE d = 1 -> "2024-01-01T10:00:00"
      [] d = 2 -> "2024-01-02T10:00:00"
      [] d = 3 -> "2024-01-03T10:00:00"

\* The test of lines 202 and 208: neither "000" nor "UN".
IsPhoneNumber(n) == n # "000" /\ n # "UN"

\* The test of lines 215, 232, 261 and 265: set, and not "UN".
IsIdentifier(v) == Truthy(v) /\ v # "UN"

\* all_numbers after the two loops of lines 201-210.
AllNumbers(records) ==
    {records[i].anumber : i \in {j \in DOMAIN records : IsPhoneNumber(records[j].anumber)}}
    \cup
    {records[i].bnumber : i \in {j \in DOMAIN records : IsPhoneNumber(records[j].bnumber)}}

AddANumber(G, record) ==
    IF IsPhoneNumber(record.anumber)
    THEN AddNode(G, record.anumber, "phone", record.anumber)
    ELSE G

AddBNumber(G, record) ==
    IF IsPhoneNumber(record.bnumber)
    THEN AddNode(G, record.bnumber, "phone", record.bnumber)
    ELSE G

ImeiLabel(record) ==
    ("IMEI: " \o record.imei)
    \o (IF Truthy(record.imei_type) THEN "\n" \o record.imei_type ELSE "")
    \o (IF Truthy(record.imsi) THEN "\nIMSI: " \o record.imsi ELSE "")

AddImei(G, record) ==
    IF IsIdentifier(record.imei)
    THEN AddNode(G, record.imei, "imei", ImeiLabel(record))
    ELSE G

AddLacCi(G, record) ==
    IF IsIdentifier(record.lac_ci)
    THEN AddNode(G, record.lac_ci, "location", "LOC: " \o record.lac_ci)
    ELSE G

\* The body of one of the four node loops of lines 201-234.
AddNodeOf(column, G, record) ==
    CASE column = "anumber" -> AddANumber(G, record)
      [] column = "bnumber" -> AddBNumber(G, record)
      [] column = "imei" -> AddImei(G, record)
      [] column = "lac_ci" -> AddLacCi(G, record)

RECURSIVE AddNodes(_, _, _, _)
\* `for record in records` of one node loop, from record i on.
AddNodes(column, G, records, i) ==
    IF i > Len(records) THEN G
    ELSE AddNodes(column, AddNodeOf(column, G, records[i]), records, i + 1)

CallEntry(record) ==
    [date |-> IsoFormat(record.date), duration |-> record.duration,
     call_type |-> record.call_type]

\* dict.update of the attributes of G.add_edge(a, b, weight=1, calls=[entry]).
NewCallAttr(old, record) ==
    [old EXCEPT !.keys = @ \cup {"weight", "calls"}, !.weight = 1,
                !.calls = <<CallEntry(record)>>]

\* MoreCallAttr with the increment of the weight forgotten.
MoreCallAttrNoWeight(old, record) ==
    [old EXCEPT !.calls = Append(@, CallEntry(record))]

\* G[a][b]["weight"] += 1 and G[a][b]["calls"].append(entry) on an edge that
\* carries both keys.
MoreCallAttr(old, record) ==
    [old EXCEPT !.weight = @ + 1, !.calls = Append(@, CallEntry(record))]

\* dict.update of the attributes of G.add_edge(a, x, relationship=rel).
RelationAttr(old, rel) ==
    [old EXCEPT !.keys = @ \cup {"relationship"}, !.relationship = rel]

\* Lines 241-258.  st is [ok, G]; ok turns FALSE when G[a][b]["weight"]
\* raises KeyError: the pair is joined by an edge made by line 262 or 279.
CallsEdge(st, record, all_numbers) ==
    LET a == record.anumber
        b == record.bnumber
        G == st.G
    IN  IF ~(a \in all_numbers /\ b \in all_numbers) THEN st
        ELSE IF HasEdge(G, a, b)
        THEN IF {"weight", "calls"} \subseteq G.eattr[EdgeKey(a, b)].keys
             THEN [st EXCEPT !.G.eattr[EdgeKey(a, b)] = MoreCallAttr(@, record)]
             ELSE [st EXCEPT !.ok = FALSE]
        ELSE [st EXCEPT !.G = AddEdge(G, a, b,
                                      NewCallAttr(EdgeAttr(G, a, b), record))]

\* Lines 260-262.
UsesEdge(G, record, all_numbers) ==
    IF IsIdentifier(record.imei) /\ record.anumber \in all_numbers
    THEN AddEdge(G, record.anumber, record.imei,
                 RelationAttr(EdgeAttr(G, record.anumber, record.imei), "uses"))
    ELSE G

LocationLabel(record) ==
    ("LOC: " \o record.lac_ci)
    \o (IF Truthy(record.sitename) THEN " (" \o record.sitename \o ")" ELSE "")
    \o (IF Truthy(record.latitude) /\ Truthy(record.longitude)
        THEN "\n" \o record.latitude \o ", " \o record.longitude ELSE "")

\* Lines 264-279.
LocatedAtEdge(G, record, all_numbers) ==
    IF IsIdentifier(record.lac_ci) /\ record.anumber \in all_numbers
    THEN AddEdge(AddNode(G, record.lac_ci, "location", LocationLabel(record)),
                 record.anumber, record.lac_ci,
                 RelationAttr(EdgeAttr(G, record.anumber, record.lac_ci),
                              "located_at"))
    ELSE G

\* One turn of the loop of lines 237-279; nothing runs after an exception.
EdgesOf(st, record, all_numbers) ==
    LET c == CallsEdge(st, record, all_numbers)
    IN  IF ~st.ok \/ ~c.ok THEN [st EXCEPT !.ok = FALSE]
        ELSE [c EXCEPT !.G = LocatedAtEdge(UsesEdge(c.G, record, all_numbers),
                                           record, all_numbers)]

RECURSIVE AddEdges(_, _, _, _)
\* `for record in records` of the loop of lines 237-279, from record i on.
AddEdges(st, records, i, all_numbers) ==
    IF i > Len(records) THEN st
    ELSE AddEdges(EdgesOf(st, records[i], all_numbers), records, i + 1,
                  all_numbers)

\* Lines 194-279: [ok |-> the loops ran to their end, G |-> the graph].
BuildGraph(records) ==
    AddEdges([ok |-> TRUE,
              G |-> AddNodes("lac_ci",
                      AddNodes("imei",
                        AddNodes("bnumber",
                          AddNodes("anumber", EmptyGraph, records, 1),
                          records, 1),
                        records, 1),
                      records, 1)],
             records, 1, AllNumbers(records))

-----------------------------------------------------------------------------
(***************************************************************************)
(* SessionManager._graph_to_json: the node list and the edge list.         *)
(***************************************************************************)

NodeJson(G, n) ==
    LET d == G.nattr[n]
    IN  [id |-> n,
         label |-> IF d.set THEN d.label ELSE n,
         type |-> IF d.set THEN d.type ELSE "unknown"]

EdgeJson(G, source, target) ==
    LET d == G.eattr[EdgeKey(source, target)]
    IN  [source |-> source, target |-> target,
         weight |-> IF "weight" \in d.keys THEN d.weight ELSE 1,
         relationship |-> IF "relationship" \in d.keys THEN d.relationship ELSE "calls",
         calls |-> IF "calls" \in d.keys THEN d.calls ELSE <<>>]

\* G.edges(data=True): per node in node order, its neighbours in adjacency
\* order, leaving out the neighbours whose own turn has passed.
EdgesFrom(G, i) ==
    LET n == G.nodes[i]
        seen == {G.nodes[j] : j \in 1..(i - 1)}
        nb == SelectSeq(G.adj[n], LAMBDA v : v \notin seen)
    IN  [k \in DOMAIN nb |-> EdgeJson(G, n, nb[k])]

RECURSIVE EdgeList(_, _)
EdgeList(G, i) ==
    IF i > Len(G.nodes) THEN <<>> ELSE EdgesFrom(G, i) \o EdgeList(G, i + 1)

GraphToJson(G) ==
    [nodes |-> [i \in DOMAIN G.nodes |-> NodeJson(G, G.nodes[i])],
     edges |-> EdgeList(G, 1)]

-----------------------------------------------------------------------------
(***************************************************************************)
(* SessionManager._apply_filters: the stored graph read back into a        *)
(* networkx.Graph, filtered, pruned and serialized again.                  *)
(***************************************************************************)

\* G.add_node(node["id"], **node), line 351.
NodeOfJson(G, node) == AddNode(G, node.id, node.type, node.label)

\* EdgeAttrOfJson with the weight left behind.
EdgeAttrOfJsonNoWeight(old, edge) ==
    [old EXCEPT !.keys = @ \cup {"source", "target", "relationship", "calls"},
                !.relationship = edge.relationship,
                !.calls = edge.calls]

\* dict.update(**edge) of line 355: every key of the serialized edge.
EdgeAttrOfJson(old, edge) ==
    [old EXCEPT !.keys = @ \cup {"source", "target", "weight", "relationship",
                                 "calls"},
                !.weight = edge.weight,
                !.relationship = edge.relationship,
                !.calls = edge.calls]

\* G.add_edge(edge["source"], edge["target"], **edge), line 355.
EdgeOfJson(G, edge) ==
    AddEdge(G, edge.source, edge.target,
            EdgeAttrOfJson(EdgeAttr(G, edge.source, edge.target), edge))

RECURSIVE NodesOfJson(_, _, _)
\* The loop of lines 350-351, from node i on.
NodesOfJson(G, nodes, i) ==
    IF i > Len(nodes) THEN G ELSE NodesOfJson(NodeOfJson(G, nodes[i]), nodes, i + 1)

RECURSIVE EdgesOfJson(_, _, _)
\* The loop of lines 354-355, from edge i on.
EdgesOfJson(G, edges, i) ==
    IF i > Len(edges) THEN G ELSE EdgesOfJson(EdgeOfJson(G, edges[i]), edges, i + 1)

\* Lines 346-355.
FromJson(stored) ==
    EdgesOfJson(NodesOfJson(EmptyGraph, stored.nodes, 1), stored.edges, 1)

\* G.remove_nodes_from(ns): the nodes go, and every edge at one of them.
RemoveNodesFrom(G, ns) ==
    LET rest == DOMAIN G.nattr \ ns
    IN  [nodes |-> SelectSeq(G.nodes, LAMBDA n : n \notin ns),
         nattr |-> [n \in rest |-> G.nattr[n]],
         adj |-> [n \in rest |-> SelectSeq(G.adj[n], LAMBDA v : v \notin ns)],
         eattr |-> [k \in {e \in DOMAIN G.eattr : e \cap ns = {}} |-> G.eattr[k]]]

\* G.remove_edges_from(es), es a set of unordered pairs.
RemoveEdgesFrom(G, es) ==
    [G EXCEPT !.adj = [n \in DOMAIN G.adj |->
                          SelectSeq(G.adj[n], LAMBDA v : EdgeKey(n, v) \notin es)],
              !.eattr = [k \in DOMAIN G.eattr \ es |-> G.eattr[k]]]

\* nodes_to_remove as the nodes of no known type only.
NodeTypesToRemoveOnlyUnknown(G, filter_options) ==
    {n \in DOMAIN G.nattr : NodeJson(G, n).type = "unknown"}

\* nodes_to_remove of lines 359-363; filter_options is
\* [keys, node_types, start, end].
NodeTypesToRemove(G, filter_options) ==
    {n \in DOMAIN G.nattr : NodeJson(G, n).type \notin filter_options.node_types}

\* Lines 358-365.
FilterNodeTypes(G, filter_options) ==
    IF "node_types" \in filter_options.keys
    THEN RemoveNodesFrom(G, NodeTypesToRemove(G, filter_options))
    ELSE G

\* The place of an isoformat text among the instants of the model, which is
\* its place in the order of Python's strings.
IsoOrder(s) ==
    CASE s = "2024-01-01T10:00:00" -> 1
      [] s = "2024-01-02T10:00:00" -> 2
      [] s = "2024-01-03T10:00:00" -> 3

\* InDateRange with the end bound taken as exclusive.
InDateRangeEndExclusive(call, start_date, end_date) ==
    /\ ~(Truthy(start_date) /\ IsoOrder(call.date) < IsoOrder(start_date))
    /\ ~(Truthy(end_date) /\ IsoOrder(call.date) >= IsoOrder(end_date))

\* Lines 380-388: the call is neither before the start nor after the end.
InDateRange(call, start_date, end_date) ==
    /\ ~(Truthy(start_date) /\ IsoOrder(call.date) < IsoOrder(start_date))
    /\ ~(Truthy(end_date) /\ IsoOrder(call.date) > IsoOrder(end_date))

\* valid_calls of lines 377-388 for the edge with attributes data.
ValidCalls(data, start_date, end_date) ==
    SelectSeq(data.calls, LAMBDA call : InDateRange(call, start_date, end_date))

\* The date filter, had it left the weight of the edges it keeps as it was.
FilterDatesKeepWeight(G, start_date, end_date) ==
    LET dated == {k \in DOMAIN G.eattr : "calls" \in G.eattr[k].keys}
        edges_to_remove ==
            {k \in dated : ValidCalls(G.eattr[k], start_date, end_date) = <<>>}
        H == [G EXCEPT !.eattr =
                 [k \in DOMAIN G.eattr |->
                     IF k \in dated \ edges_to_remove
                     THEN [G.eattr[k] EXCEPT
                             !.calls = ValidCalls(G.eattr[k], start_date, end_date)]
                     ELSE G.eattr[k]]]
    IN  RemoveEdgesFrom(H, edges_to_remove)

\* Lines 373-396: of the edges that have a `calls` key, those without a
\* call in the range go, the others keep the calls in the range.
FilterDates(G, start_date, end_date) ==
    LET dated == {k \in DOMAIN G.eattr : "calls" \in G.eattr[k].keys}
        edges_to_remove ==
            {k \in dated : ValidCalls(G.eattr[k], start_date, end_date) = <<>>}
        H == [G EXCEPT !.eattr =
                 [k \in DOMAIN G.eattr |->
                     IF k \in dated \ edges_to_remove
                     THEN [G.eattr[k] EXCEPT
                             !.calls = ValidCalls(G.eattr[k], start_date, end_date),
                             !.weight = Len(ValidCalls(G.eattr[k], start_date,
                                                       end_date))]
                     ELSE G.eattr[k]]]
    IN  RemoveEdgesFrom(H, edges_to_remove)

\* Lines 368-396.
FilterDateRange(G, filter_options) ==
    IF /\ "date_range" \in filter_options.keys
       /\ (Truthy(filter_options.start) \/ Truthy(filter_options.end))
    THEN FilterDates(G, filter_options.start, filter_options.end)
    ELSE G

\* nx.isolates(G): the nodes without a neighbour.
Isolates(G) == {n \in DOMAIN G.nattr : G.adj[n] = <<>>}

\* Lines 399-400.
RemoveIsolates(G) == RemoveNodesFrom(G, Isolates(G))

\* _apply_filters, lines 342-403.
ApplyFilters(stored, filter_options) ==
    GraphToJson(RemoveIsolates(
        FilterDateRange(FilterNodeTypes(FromJson(stored), filter_options),
                        filter_options)))

\* filter_options that is None or {}.
NoOptions == [keys |-> {}, node_types |-> {}, start |-> NULL, end |-> NULL]

-----------------------------------------------------------------------------
(***************************************************************************)
(* SpecBuild: _update_graph over the records of one session, one more      *)
(* record persisted before each rebuild.                                   *)
(***************************************************************************)

MaxRecs == 2

CallTypes == {"Voice MO", "GPRS"}

ANumbers == {"1111", "2222", "UN"}

BNumbers == {"1111", "2222", "000", ""}

\* <<imei, imei_type, imsi>>
Devices ==
    {<<NULL, NULL, NULL>>, <<"UN", NULL, NULL>>, <<"000", NULL, NULL>>,
     <<"2222", NULL, NULL>>, <<"3333", "Nokia", "5101">>}

\* <<lac_ci, sitename, latitude, longitude>>
Locations ==
    {<<NULL, NULL, NULL, NULL>>, <<"000", NULL, NULL, NULL>>,
     <<"1111", NULL, NULL, NULL>>, <<"4444", "Site A", "-6.2", "106.8">>}

Cdr(ct, a, b, d, dev, loc) ==
    [call_type |-> ct, anumber |-> a, bnumber |-> b, date |-> d, duration |-> 30,
     imei |-> dev[1], imei_type |-> dev[2], imsi |-> dev[3],
     lac_ci |-> loc[1], sitename |-> loc[2], latitude |-> loc[3],
     longitude |-> loc[4]]

\* How many columns of a record depart from a plain call between two numbers.
Departures(r) ==
    (IF r.call_type # "Voice MO" THEN 1 ELSE 0)
    + (IF r.anumber = "UN" THEN 1 ELSE 0)
    + (IF r.bnumber \in {"000", ""} THEN 1 ELSE 0)
    + (IF r.date # 1 THEN 1 ELSE 0)
    + (IF r.imei # NULL THEN 1 ELSE 0)
    + (IF r.lac_ci # NULL THEN 1 ELSE 0)

\* The records of the model: calls between two numbers, in both directions
\* and to oneself, each with at most one departure.
BuildInputs ==
    {r \in {Cdr(ct, a, b, d, dev, loc) :
                ct \in CallTypes, a \in ANumbers, b \in BNumbers, d \in {1, 2},
                dev \in Devices, loc \in Locations} : Departures(r) <= 1}

\* The requests that can be in add_cdr_data at the same time.
Workers == {"w1", "w2"}

\* A request that is not in add_cdr_data.
IdleWorker == [pc |-> "idle", sid |-> "", df |-> <<>>, records |-> <<>>]

\* No add_cdr_data call is under way; none has overlapped another or failed.
NoIngests ==
    [at |-> [w \in Workers |-> IdleWorker], overlapped |-> FALSE, failed |-> FALSE]

\* No call of a wrapper of handle_db_connection is under way.
NoWrapped ==
    [state |-> "idle", max_retries |-> 0, retries |-> 0, calls |-> <<>>,
     result |-> ""]

IdleWrapper == wrapper = NoWrapped

IdleBuild == recs = <<>> /\ built = [ok |-> TRUE, G |-> EmptyGraph]

IdleValidate == rows = <<>> /\ kept = <<>>

\* No process_multiple_cdr_files call is under way.  Of a call under way:
\* the session, the files still to come, total_records, and (for the
\* properties) all the files of the call and what became of those done.
NoCall ==
    [active |-> FALSE, sid |-> "", files |-> <<>>, total_records |-> 0,
     all |-> <<>>, done |-> <<>>]

\* What a step returned: whether it returned or raised, the error, the value
\* returned, the number of the session's records before the step, of a
\* process_multiple_cdr_files call its files and what became of them, and
\* of a get_graph_data call its filter options and the graph returned, and
\* of a get_session, session_exists or delete_session call the value
\* returned ("Session", "None", "True" or "False") and what the database
\* did when it was asked ("no_db" when the call had no database handle).
Returned(op, sid, ok, error, returned, before) ==
    [op |-> op, sid |-> sid, ok |-> ok, error |-> error, returned |-> returned,
     before |-> before, files |-> <<>>, done |-> <<>>,
     options |-> NoOptions, graph |-> [nodes |-> <<>>, edges |-> <<>>],
     value |-> "", fault |-> ""]

IdleStore ==
    /\ sessions = {}
    /\ cdr_records = <<>>
    /\ graph_data = <<>>
    /\ record_count = <<>>
    /\ many = NoCall
    /\ last = Returned("none", "", TRUE, "", 0, 0)
    /\ session_cache = {}
    /\ inflight = NoIngests

InitBuild == IdleBuild /\ IdleValidate /\ IdleStore /\ IdleWrapper

\* One more record is in the table and _update_graph rebuilds the graph from
\* all of them.
Rebuild(record) ==
    /\ Len(recs) < MaxRecs
    /\ recs' = Append(recs, record)
    /\ built' = BuildGraph(recs')
    /\ UNCHANGED <<validateVars, storeVars, wrapper>>

NextBuild == \E record \in BuildInputs : Rebuild(record)

SpecBuild == InitBuild /\ [][NextBuild]_vars

\* The serialized graph of the records at hand.
BuiltJson == GraphToJson(built.G)

\* The indices of the records that are a call between x and y, either way.
RecordsBetween(records, x, y) ==
    {i \in DOMAIN records :
        /\ IsPhoneNumber(records[i].anumber) /\ IsPhoneNumber(records[i].bnumber)
        /\ {records[i].anumber, records[i].bnumber} = {x, y}}

\* The indices of the serialized edges that join x and y.
EdgesBetween(J, x, y) ==
    {k \in DOMAIN J.edges : {J.edges[k].source, J.edges[k].target} = {x, y}}

\* The call-list entries of the records idx, in record order.
RECURSIVE EntriesOf(_, _, _)
EntriesOf(records, idx, i) ==
    IF i > Len(records) THEN <<>>
    ELSE (IF i \in idx THEN <<CallEntry(records[i])>> ELSE <<>>)
         \o EntriesOf(records, idx, i + 1)

\* C1: in a built graph every unordered pair of phone numbers is joined by at
\* most one edge; when n >= 1 records are calls between the two, in either
\* direction, that one edge has weight n and a call list with exactly the
\* entries of those n records, and no edge that serializes as `calls` joins
\* a pair without such records.
C1_OneCallsEdgePerPair ==
    built.ok =>
        \A x \in AllNumbers(recs) : \A y \in AllNumbers(recs) :
            LET between == RecordsBetween(recs, x, y)
                es == EdgesBetween(BuiltJson, x, y)
            IN  /\ Cardinality(es) <= 1
                /\ between # {} =>
                      /\ Cardinality(es) = 1
                      /\ \A k \in es :
                            /\ BuiltJson.edges[k].weight = Cardinality(between)
                            /\ BuiltJson.edges[k].calls = EntriesOf(recs, between, 1)
                /\ between = {} =>
                      \A k \in es : BuiltJson.edges[k].relationship # "calls"

\* Two records, one each way between two different numbers, and one `calls`
\* edge of weight 2 for them.
C1_Witness ==
    /\ built.ok
    /\ \E i \in DOMAIN recs : \E j \in DOMAIN recs :
          /\ recs[i].anumber = recs[j].bnumber
          /\ recs[i].bnumber = recs[j].anumber
          /\ recs[i].anumber # recs[i].bnumber
          /\ \E k \in EdgesBetween(BuiltJson, recs[i].anumber, recs[i].bnumber) :
                /\ BuiltJson.edges[k].relationship = "calls"
                /\ BuiltJson.edges[k].weight = 2

NodeSet(J) == {J.nodes[i] : i \in DOMAIN J.nodes}

\* The edges of a serialized graph as a set, the endpoints as a pair without
\* direction.
EdgeSet(J) ==
    {[ends |-> {J.edges[k].source, J.edges[k].target},
      weight |-> J.edges[k].weight,
      relationship |-> J.edges[k].relationship,
      calls |-> J.edges[k].calls] : k \in DOMAIN J.edges}

\* The built graph serialized, read back by lines 346-355 and serialized
\* again.
RoundTrip == GraphToJson(FromJson(BuiltJson))

\* C20: serializing a built graph, reading the result back and serializing
\* again gives the same set of nodes (id, label, type) and the same set of
\* edges (unordered endpoints, weight, relationship, calls).
C20_SerializeRoundTrip ==
    built.ok =>
        /\ NodeSet(RoundTrip) = NodeSet(BuiltJson)
        /\ EdgeSet(RoundTrip) = EdgeSet(BuiltJson)

\* A built graph with an edge of weight 2 or with an isolated node next to
\* an edge.
C20_Witness ==
    /\ built.ok
    /\ \E k \in DOMAIN BuiltJson.edges :
          \/ BuiltJson.edges[k].weight = 2
          \/ \E i \in DOMAIN BuiltJson.nodes :
                \A e \in DOMAIN BuiltJson.edges :
                    BuiltJson.nodes[i].id \notin
                        {BuiltJson.edges[e].source, BuiltJson.edges[e].target}

\* The serialized edge that joins x and y is one, of the relationship rel,
\* of weight 1 and without call entries.
OnePlainEdge(J, x, y, rel) ==
    /\ Cardinality(EdgesBetween(J, x, y)) = 1
    /\ \A k \in EdgesBetween(J, x, y) :
          /\ J.edges[k].relationship = rel
          /\ J.edges[k].weight = 1
          /\ J.edges[k].calls = <<>>

-----------------------------------------------------------------------------
(***************************************************************************)
(* CDRProcessor.process_cdr_file from line 416 on: the table has its       *)
(* canonical columns; a row is                                             *)
(*   [call_type, anumber, bnumber, date, duration, imei, ...]              *)
(* with NULL for a missing (NaN) cell, NaT for a missing date and, until   *)
(* line 428, the duration as the text read from the file.                  *)
(***************************************************************************)

NaT == 0

\* str.upper() on the call types of the model; a missing cell stays missing.
Upper(s) ==
    CASE s = "gprs" -> "GPRS"
      [] s = "Gprs" -> "GPRS"
      [] s = "Voice MO" -> "VOICE MO"
      [] s = "voice mo" -> "VOICE MO"
      [] OTHER -> s

\* str.strip() on the cell texts of the model.
Strip(s) == IF s \in {" ", "    "} THEN "" ELSE s

\* astype(str).str.replace(':', '') on the duration texts of the model.
StripColons(s) ==
    CASE s = "00:30" -> "0030"
      [] s = ":" -> ""
      [] OTHER -> s

\* pd.to_numeric(errors='coerce').fillna(0).astype(int) on those texts.
ToInt(s) ==
    CASE s = "30" -> 30
      [] s = "0030" -> 30
      [] s = "0" -> 0
      [] s = "-5" -> -5
      [] OTHER -> 0

\* Lines 427-428.
ProcessDuration(df) ==
    [i \in DOMAIN df |-> [df[i] EXCEPT !.duration = ToInt(StripColons(@))]]

invalid_numbers == {"8331", "100", "363", "8999"}

gprs_mask(row) == Upper(row.call_type) = "GPRS"

invalid_mask(row) == row.bnumber \in invalid_numbers

\* _filter_invalid_bnumbers without the exemption of the GPRS rows.
FilterInvalidBnumbersNoExemption(df) ==
    SelectSeq(df, LAMBDA row : ~invalid_mask(row))

\* _filter_invalid_bnumbers, lines 69-83.
FilterInvalidBnumbers(df) ==
    SelectSeq(df, LAMBDA row :
        gprs_mask(row) \/ (~gprs_mask(row) /\ ~invalid_mask(row)))

\* notna() and astype(str).str.strip() != '' on a text column.
Present(v) == v # NULL /\ Strip(v) # ""

\* The same on the date column: a datetime prints as a non-empty text.
PresentDate(d) == d # NaT

\* ValidNonGprs without the length test on bnumber.
ValidNonGprsAnyB(row) ==
    /\ Present(row.call_type) /\ Present(row.anumber) /\ Present(row.bnumber)
    /\ PresentDate(row.date)
    /\ Len(row.anumber) >= 4

\* Lines 452-457; the duration is an integer by now and always present.
ValidNonGprs(row) ==
    /\ Present(row.call_type) /\ Present(row.anumber) /\ Present(row.bnumber)
    /\ PresentDate(row.date)
    /\ Len(row.anumber) >= 4
    /\ Len(row.bnumber) >= 4

\* Lines 460-466.
ValidGprs(row) ==
    /\ Present(row.call_type) /\ Present(row.anumber) /\ PresentDate(row.date)
    /\ Len(row.anumber) >= 4

\* Lines 445-473: the GPRS rows that pass, then the other rows that pass,
\* less the rows without a date or with a negative duration.
Validate(df) ==
    LET gprs_records == SelectSeq(df, gprs_mask)
        non_gprs_records == SelectSeq(df, LAMBDA row : ~gprs_mask(row))
        combined == SelectSeq(gprs_records, ValidGprs)
                    \o SelectSeq(non_gprs_records, ValidNonGprs)
    IN  SelectSeq(combined, LAMBDA row : row.date # NaT /\ row.duration >= 0)

\* Lines 426-473 on a table with the required columns.
ProcessRows(df) ==
    LET durations == ProcessDuration(df)
        filtered == FilterInvalidBnumbers(durations)
    IN  [durations |-> durations, filtered |-> filtered, valid |-> Validate(filtered)]

-----------------------------------------------------------------------------
(***************************************************************************)
(* SpecValidate: the validator over tables that grow row by row.           *)
(***************************************************************************)

MaxRows == 2

RowCallTypes == {"Voice MO", "GPRS", "gprs"}

RowANumbers == {"6281", "62", ""}

RowBNumbers == {"6285", "8331", "62", "", "    ", NULL}

RowDates == {1, NaT}

RowDurations == {"30", "00:30", "-5", "abc"}

Row(ct, a, b, d, dur) ==
    [call_type |-> ct, anumber |-> a, bnumber |-> b, date |-> d, duration |-> dur,
     imei |-> NULL, imei_type |-> NULL, imsi |-> NULL, lac_ci |-> NULL,
     sitename |-> NULL, latitude |-> NULL, longitude |-> NULL]

\* How many cells of a row depart from a well-formed voice call.
RowDepartures(r) ==
    (IF r.call_type # "Voice MO" THEN 1 ELSE 0)
    + (IF r.anumber # "6281" THEN 1 ELSE 0)
    + (IF r.bnumber # "6285" THEN 1 ELSE 0)
    + (IF r.date # 1 THEN 1 ELSE 0)
    + (IF r.duration # "30" THEN 1 ELSE 0)

\* The rows of the model: at most two departures each.
RowInputs ==
    {r \in {Row(ct, a, b, d, dur) :
                ct \in RowCallTypes, a \in RowANumbers, b \in RowBNumbers,
                d \in RowDates, dur \in RowDurations} : RowDepartures(r) <= 2}

InitValidate ==
    /\ IdleBuild /\ IdleStore /\ IdleWrapper
    /\ rows = <<>>
    /\ kept = ProcessRows(<<>>)

\* One more row in the table, and the validator run on the table.
AppendRow(row) ==
    /\ Len(rows) < MaxRows
    /\ rows' = Append(rows, row)
    /\ kept' = ProcessRows(rows')
    /\ UNCHANGED <<buildVars, storeVars, wrapper>>

NextValidate == \E row \in RowInputs : AppendRow(row)

SpecValidate == InitValidate /\ [][NextValidate]_vars

\* The spellings of GPRS among the call types of the model.
GprsSpellings == {"GPRS", "gprs", "Gprs"}

\* C9: the denylist step keeps the rows of the table in their order and
\* unchanged, less exactly the rows whose bnumber is one of 8331, 100, 363,
\* 8999 and whose call_type is no spelling of GPRS.
C9_DenylistExemptsGprs ==
    kept.filtered =
        SelectSeq(kept.durations, LAMBDA row :
            ~(row.bnumber \in {"8331", "100", "363", "8999"}
              /\ row.call_type \notin GprsSpellings))

\* A table with a GPRS row to 8331, which is retained, and a Voice MO row to
\* 8331, which is dropped.
C9_Witness ==
    /\ \E i \in DOMAIN kept.durations :
          /\ kept.durations[i].call_type = "GPRS"
          /\ kept.durations[i].bnumber = "8331"
          /\ Contains(kept.filtered, kept.durations[i])
    /\ \E i \in DOMAIN kept.durations :
          /\ kept.durations[i].call_type = "Voice MO"
          /\ kept.durations[i].bnumber = "8331"
          /\ ~Contains(kept.filtered, kept.durations[i])

\* C10: every row that the validator hands on to be persisted has a
\* call_type, an anumber of at least 4 characters and a date, none of them
\* missing or blank; unless its call_type is a spelling of GPRS it also has
\* a duration and a bnumber of at least 4 characters that is not blank.
C10_PersistedRowsValid ==
    \A i \in DOMAIN kept.valid :
        LET row == kept.valid[i]
        IN  /\ row.call_type \notin {NULL, "", " ", "    "}
            /\ row.anumber \notin {NULL, "", " ", "    "}
            /\ Len(row.anumber) >= 4
            /\ row.date \in Dates
            /\ row.call_type \notin GprsSpellings =>
                  /\ row.bnumber \notin {NULL, "", " ", "    "}
                  /\ Len(row.bnumber) >= 4
                  /\ row.duration \in Int

\* The validator accepted a GPRS row without a B-party next to a voice row.
C10_Witness ==
    /\ \E i \in DOMAIN kept.valid :
          kept.valid[i].call_type \in GprsSpellings /\ kept.valid[i].bnumber = ""
    /\ \E i \in DOMAIN kept.valid : kept.valid[i].call_type = "Voice MO"

-----------------------------------------------------------------------------
(***************************************************************************)
(* Spec: one SessionManager over the database.  db is the committed state  *)
(* of the tables, [sessions, cdr_records, graph_data, record_count]; the   *)
(* calls run one after another.                                            *)
(***************************************************************************)

MaxRecords == 3

MaxFiles == 2

SessionIds == {"s1"}

\* json.dumps({"nodes": [], "edges": []}), line 38.
EmptyGraphJson == [nodes |-> <<>>, edges |-> <<>>]

\* Where a database call of add_cdr_data raises OperationalError: nowhere,
\* at the query of line 140, at the commit of line 171, inside
\* _update_graph (lines 192, 282, 284) or at lines 177-179.
Faults == {"none", "begin", "commit_rows", "update_graph", "record_count"}

\* CDRRecord(...) of lines 151-167: every column from the row, None for a
\* missing optional cell.
CdrRecordOf(row) ==
    [call_type |-> row.call_type, anumber |-> row.anumber, bnumber |-> row.bnumber,
     date |-> row.date, duration |-> row.duration,
     imei |-> row.imei, imei_type |-> row.imei_type, imsi |-> row.imsi,
     lac_ci |-> row.lac_ci, sitename |-> row.sitename,
     latitude |-> row.latitude, longitude |-> row.longitude]

\* The query of line 192 with only the newest row of the session.
QueryRecordsNewest(db, sid) ==
    LET all == db.cdr_records[sid]
    IN  IF all = <<>> THEN <<>> ELSE <<all[Len(all)]>>

\* db.query(CDRRecord).filter(CDRRecord.session_id == session_id).all(),
\* line 192.
QueryRecords(db, sid) == db.cdr_records[sid]

\* Lines 281-284 after the build g: the serialized graph replaces the
\* session's graph_data; [ok, db].  A raise, of the build or of the database,
\* leaves the stored graph as it was.
StoreGraph(db, sid, fault, g) ==
    IF fault = "update_graph" \/ ~g.ok
    THEN [ok |-> FALSE, db |-> db]
    ELSE [ok |-> TRUE, db |-> [db EXCEPT !.graph_data[sid] = GraphToJson(g.G)]]

\* _update_graph, lines 188-290: [ok, db].
UpdateGraph(db, sid, fault) ==
    StoreGraph(db, sid, fault, BuildGraph(QueryRecords(db, sid)))

\* The outcome of a call: [ok, error, returned, db].
Outcome(ok, error, returned, db) ==
    [ok |-> ok, error |-> error, returned |-> returned, db |-> db]

\* record_count taken as the old count plus the size of the batch.
CountRecordsAdded(db, sid, df) == db.record_count[sid] + Len(df)

\* db.query(CDRRecord).filter(...).count(), line 177.
CountRecords(db, sid, df) == Len(db.cdr_records[sid])

\* Lines 174-186, graphed being what _update_graph returned: its raise is
\* raised again, with the rows of line 171 committed; else record_count is
\* recomputed and len(cdr_df) returned.
AfterUpdateGraph(graphed, sid, df, fault) ==
    IF ~graphed.ok THEN Outcome(FALSE, "graph", 0, graphed.db)
    ELSE IF fault = "record_count" THEN Outcome(FALSE, "database", 0, graphed.db)
    ELSE Outcome(TRUE, "", Len(df),
                 [graphed.db EXCEPT
                     !.record_count[sid] = CountRecords(graphed.db, sid, df)])

\* Lines 146-171: the rows are added and committed.
AddRows(db, sid, df) ==
    [db EXCEPT !.cdr_records[sid] = @ \o [i \in DOMAIN df |-> CdrRecordOf(df[i])]]

\* The session of line 142 when it is found, and else a new one.
SessionOrNew(db, sid) ==
    IF sid \in db.sessions THEN db
    ELSE [sessions |-> db.sessions \cup {sid},
          cdr_records |-> (sid :> <<>>) @@ db.cdr_records,
          graph_data |-> (sid :> [nodes |-> <<>>, edges |-> <<>>]) @@ db.graph_data,
          record_count |-> (sid :> 0) @@ db.record_count]

\* add_cdr_data, had it made the session it does not find.
AddCdrDataMakesSession(db, sid, df, fault) ==
    IF fault = "begin" THEN Outcome(FALSE, "database", 0, db)
    ELSE IF fault = "commit_rows" THEN Outcome(FALSE, "database", 0, db)
    ELSE AfterUpdateGraph(UpdateGraph(AddRows(SessionOrNew(db, sid), sid, df),
                                      sid, fault),
                          sid, df, fault)

\* add_cdr_data, lines 137-186.
AddCdrData(db, sid, df, fault) ==
    IF fault = "begin" THEN Outcome(FALSE, "database", 0, db)
    ELSE IF sid \notin db.sessions THEN Outcome(FALSE, "not_found", 0, db)
    ELSE IF fault = "commit_rows" THEN Outcome(FALSE, "database", 0, db)
    ELSE AfterUpdateGraph(UpdateGraph(AddRows(db, sid, df), sid, fault),
                          sid, df, fault)

required_columns == {"call_type", "anumber", "bnumber", "date", "duration"}

\* SaveValid without the test for an empty table.
SaveValidEvenEmpty(db, sid, df, fault) ==
    AddCdrData(db, sid, df, fault)

\* Lines 475-491: no valid row is an error, else the rows go to the session.
SaveValid(db, sid, df, fault) ==
    IF Len(df) = 0 THEN Outcome(FALSE, "no_valid_records", 0, db)
    ELSE AddCdrData(db, sid, df, fault)

\* clean_column_name, lines 351-356, on the headers of the model: lower
\* case, trimmed, and a leading % set off by one blank.
clean_column_name(col) ==
    CASE col = "% A Number" -> "% a number"
      [] col = "% B Number" -> "% b number"
      [] col = "% CallType" -> "% calltype"
      [] col = "% Date" -> "% date"
      [] col = "% Time" -> "% time"
      [] col = "%Duration " -> "% duration"
      [] col = "% Duration" -> "% duration"
      [] col = "Date" -> "date"
      [] col = "Time" -> "time"
      [] OTHER -> col

\* excel_column_mapping.get(col, col), lines 363-404, on those names.
excel_column_mapping(col) ==
    CASE col = "a_number" -> "anumber"
      [] col = "b_number" -> "bnumber"
      [] col = "calltype" -> "call_type"
      [] col = "timestamp" -> "date"
      [] col = "call_duration" -> "duration"
      [] OTHER -> col

\* col.lower().strip('% ') of line 23 on the column names of the model.
StripPercent(col) ==
    CASE col = "% a number" -> "a number"
      [] col = "% b number" -> "b number"
      [] col = "% calltype" -> "calltype"
      [] col = "% date" -> "date"
      [] col = "% time" -> "time"
      [] col = "% duration" -> "duration"
      [] OTHER -> col

\* `pattern in col` for some column: no column name of the model holds a
\* pattern of lines 26-43 as a proper part, so `in` comes to equality.
AnyHas(columns, patterns) == columns \cap patterns # {}

\* _detect_file_format, lines 17-67.
DetectFileFormat(df_columns) ==
    LET columns == {StripPercent(col) : col \in df_columns}
    IN  IF AnyHas(columns, {"a number"}) /\ AnyHas(columns, {"b number"})
        THEN "detailed"
        ELSE IF {"anumber", "bnumber", "date", "duration"} \subseteq columns
        THEN "standard"
        ELSE IF /\ AnyHas(columns, {"a_number", "phone_a", "msisdn_a", "caller",
                                    "calling_number", "anumber"})
                /\ AnyHas(columns, {"b_number", "phone_b", "msisdn_b", "called",
                                    "called_number", "bnumber"})
                /\ AnyHas(columns, {"datetime", "timestamp", "call_timestamp",
                                    "date_time", "call_date", "start_time", "date"})
                /\ AnyHas(columns, {"duration", "call_duration", "duration_sec",
                                    "duration_seconds", "call_length"})
        THEN "standard"
        ELSE IF "date" \in columns /\ "time" \in columns
        THEN "detailed"
        ELSE "standard"

\* column_mapping of lines 100-123 as rename applies it at line 129.
column_mapping(col) ==
    CASE col = "% a number" -> "anumber"
      [] col = "% b number" -> "bnumber"
      [] col = "% calltype" -> "call_type"
      [] col = "% date" -> "date"
      [] col = "% time" -> "time"
      [] col = "% duration" -> "duration"
      [] OTHER -> col

keep_columns ==
    {"call_type", "anumber", "bnumber", "date", "duration", "imei", "b_imei",
     "imei_type", "b_imei_type", "imsi", "b_imsi", "lac_ci", "b_lac_ci",
     "sitename", "b_sitename", "direction", "latitude", "longitude",
     "b_latitude", "b_longitude"}

\* Lines 133-134: a cell that is ":" becomes "0" (Series.replace takes the
\* whole cell), then to_numeric(errors='coerce').fillna(0).astype(int).
DetailedDuration(s) == ToInt(IF s = ":" THEN "0" ELSE s)

\* astype(str) of line 427 on the integers of the model.
IntText(n) ==
    CASE n = 30 -> "30"
      [] n = 0 -> "0"
      [] n = -5 -> "-5"

\* pd.to_datetime(format='%d/%b/%y %H:%M:%S', errors='coerce'), lines
\* 145-149, on the texts of the model.
ParseDateTime(s) ==
    CASE s = "01/Jan/24 10:00:00" -> 1
      [] s = "02/Jan/24 10:00:00" -> 2
      [] OTHER -> NaT

\* str.replace(r'^\+', '', regex=True), lines 213-214.
StripPlus(s) ==
    CASE s = "+6281234" -> "6281234"
      [] s = "+6285678" -> "6285678"
      [] s = "+8331" -> "8331"
      [] OTHER -> s

\* One row of a detailed file after lines 129-214.
DetailedRow(cells) ==
    Row(cells.call_type, StripPlus(cells.anumber), StripPlus(cells.bnumber),
        ParseDateTime(Strip(cells.date) \o " " \o Strip(cells.time)),
        IntText(DetailedDuration(cells.duration)))

\* A table, or the exception that ended the reading of it.
Parsed(ok, error, columns, table) ==
    [ok |-> ok, error |-> error, columns |-> columns, rows |-> table]

\* _standardize_detailed_format, lines 85-221, on the table with columns
\* `columns` (renamed by line 129) and rows `table`.  Without a date or a
\* time column line 138 or 139 raises KeyError, and so does the handler of
\* lines 162-166; with a date that did not parse line 161 raises, and the
\* handler raises KeyError at line 165, the time column being dropped by
\* line 152.  Lines 213, 214 and 75 raise KeyError for their columns.
StandardizeRenamed(columns, table) ==
    IF ~({"date", "time"} \subseteq columns)
    THEN Parsed(FALSE, "key_error", columns, <<>>)
    ELSE IF \E i \in DOMAIN table : table[i].date = NaT
    THEN Parsed(FALSE, "key_error", columns, <<>>)
    ELSE IF ~({"anumber", "bnumber", "call_type"} \subseteq columns)
    THEN Parsed(FALSE, "key_error", columns, <<>>)
    ELSE Parsed(TRUE, "", columns \cap keep_columns, FilterInvalidBnumbers(table))

StandardizeDetailedFormat(file) ==
    StandardizeRenamed({column_mapping(col) : col \in file.columns},
                       [i \in DOMAIN file.rows |-> DetailedRow(file.rows[i])])

\* Lines 407-414.
Standardized(file) ==
    IF DetectFileFormat(file.columns) = "detailed"
    THEN StandardizeDetailedFormat(file)
    ELSE Parsed(TRUE, "", file.columns, file.rows)

\* Lines 416-491 on what lines 407-414 gave.
AfterStandardize(db, sid, parsed, fault) ==
    IF ~parsed.ok THEN Outcome(FALSE, parsed.error, 0, db)
    ELSE IF ~(required_columns \subseteq parsed.columns)
    THEN Outcome(FALSE, "missing_columns", 0, db)
    ELSE SaveValid(db, sid, ProcessRows(parsed.rows).valid, fault)

\* process_cdr_file, lines 224-495, on a file that is unreadable in every
\* dialect, or a table with typed dates, or a text table in the detailed
\* format; file.columns are the column names after lines 351-404.
ProcessCdrFile(db, sid, file, fault) ==
    IF ~file.readable THEN Outcome(FALSE, "format", 0, db)
    ELSE AfterStandardize(db, sid, Standardized(file), fault)

Database ==
    [sessions |-> sessions, cdr_records |-> cdr_records,
     graph_data |-> graph_data, record_count |-> record_count]

Commit(db) ==
    /\ sessions' = db.sessions
    /\ cdr_records' = db.cdr_records
    /\ graph_data' = db.graph_data
    /\ record_count' = db.record_count

\* The files of the model.
Table(table) == [readable |-> TRUE, columns |-> required_columns, rows |-> table]

VoiceAB == Row("Voice MO", "6281", "6285", 1, "30")

VoiceBA == Row("Voice MO", "6285", "6281", 2, "00:30")

VoiceDenied == Row("Voice MO", "6281", "8331", 1, "30")

VoiceShort == Row("Voice MO", "62", "6285", 1, "30")

GprsData == [Row("GPRS", "6281", "", 3, "0") EXCEPT !.imei = "6285"]

FileInputs ==
    {Table(<<VoiceAB>>),
     Table(<<VoiceDenied, VoiceBA, VoiceAB>>),
     Table(<<VoiceShort, VoiceDenied>>),
     Table(<<GprsData>>),
     [readable |-> FALSE, columns |-> {}, rows |-> <<>>]}

\* The rows of a file that lines 407-473 hand on to be persisted.
ValidRows(parsed) ==
    IF parsed.ok /\ required_columns \subseteq parsed.columns
    THEN ProcessRows(parsed.rows).valid
    ELSE <<>>

\* The rows a file can come to persist.
RowsOf(file) == IF file.readable THEN Len(ValidRows(Standardized(file))) ELSE 0

\* The number of records persisted for a session.
PersistedIn(sid) == IF sid \in sessions THEN Len(cdr_records[sid]) ELSE 0

Persisted == PersistedIn("s1")

RECURSIVE RowsOfAll(_)
RowsOfAll(files) ==
    IF files = <<>> THEN 0 ELSE RowsOf(Head(files)) + RowsOfAll(Tail(files))

FileLists == UNION {[1..n -> FileInputs] : n \in 1..MaxFiles}

Init ==
    /\ IdleBuild /\ IdleValidate /\ IdleWrapper
    /\ sessions = {}
    /\ cdr_records = <<>>
    /\ graph_data = <<>>
    /\ record_count = <<>>
    /\ many = NoCall
    /\ last = Returned("none", "", TRUE, "", 0, 0)
    /\ session_cache = {}
    /\ inflight = NoIngests

\* create_session, lines 30-53; the id is a fresh uuid.  The commit of
\* line 42 may raise, and the refresh of line 43 after it.
CreateSession(sid, fault) ==
    /\ ~many.active
    /\ sid \notin sessions
    /\ IF fault \in {"none", "refresh"}
       THEN /\ sessions' = sessions \cup {sid}
            /\ cdr_records' = (sid :> <<>>) @@ cdr_records
            /\ graph_data' = (sid :> EmptyGraphJson) @@ graph_data
            /\ record_count' = (sid :> 0) @@ record_count
       ELSE UNCHANGED <<sessions, cdr_records, graph_data, record_count>>
    /\ IF fault = "none"
       THEN /\ session_cache' = session_cache \cup {sid}
            /\ last' = Returned("create_session", sid, TRUE, "", 0, 0)
       ELSE /\ session_cache' = session_cache
            /\ last' = Returned("create_session", sid, FALSE, "database", 0, 0)
    /\ UNCHANGED <<buildVars, validateVars, many, wrapper, inflight>>

\* A call that ended with outcome r: the database as the call left it.
Call(op, sid, file, r) ==
    /\ Commit(r.db)
    /\ last' = [Returned(op, sid, r.ok, r.error, r.returned, PersistedIn(sid))
                    EXCEPT !.files = <<file>>]

\* ingest: process_cdr_file for one uploaded file.
Ingest(sid, file, fault) ==
    /\ ~many.active
    /\ PersistedIn(sid) + RowsOf(file) <= MaxRecords
    /\ Call("ingest", sid, file, ProcessCdrFile(Database, sid, file, fault))
    /\ UNCHANGED <<buildVars, validateVars, many, session_cache, wrapper,
                   inflight>>

\* process_multiple_cdr_files, line 510: total_records = 0.
IngestManyBegin(sid, files) ==
    /\ ~many.active
    /\ Persisted + RowsOfAll(files) <= MaxRecords
    /\ many' = [active |-> TRUE, sid |-> sid, files |-> files, total_records |-> 0,
                all |-> files, done |-> <<>>]
    /\ last' = Returned("ingest_many_begin", sid, TRUE, "", 0, Persisted)
    /\ UNCHANGED <<buildVars, validateVars, sessions, cdr_records, graph_data,
                   record_count, session_cache, wrapper, inflight>>

\* The turn of the loop as it stops at the first file that fails.
ManyAfterStopAtFailure(call, r) ==
    LET done == Append(call.done, [file |-> Head(call.files), ok |-> r.ok,
                                   returned |-> r.returned])
    IN  IF r.ok
        THEN [call EXCEPT !.files = Tail(@), !.total_records = @ + r.returned,
                          !.done = done]
        ELSE [call EXCEPT !.files = <<>>, !.done = done]

\* Lines 512-522: the call after one turn of the loop whose
\* process_cdr_file gave r; an exception is logged and the loop goes on.
ManyAfter(call, r) ==
    LET done == Append(call.done, [file |-> Head(call.files), ok |-> r.ok,
                                   returned |-> r.returned])
    IN  IF r.ok
        THEN [call EXCEPT !.files = Tail(@), !.total_records = @ + r.returned,
                          !.done = done]
        ELSE [call EXCEPT !.files = Tail(@), !.done = done]

\* Lines 516-522 with process_cdr_file's outcome r.
TryFile(r) ==
    /\ Call("ingest_many_file", many.sid, Head(many.files), r)
    /\ many' = ManyAfter(many, r)

\* One turn of the loop of lines 512-522.
IngestManyFile(fault) ==
    /\ many.active
    /\ many.files # <<>>
    /\ TryFile(ProcessCdrFile(Database, many.sid, Head(many.files), fault))
    /\ UNCHANGED <<buildVars, validateVars, session_cache, wrapper,
                   inflight>>

\* Line 524: return total_records.
IngestManyReturn ==
    /\ many.active
    /\ many.files = <<>>
    /\ many' = NoCall
    /\ last' = [Returned("ingest_many", many.sid, TRUE, "", many.total_records,
                         Persisted)
                    EXCEPT !.files = many.all, !.done = many.done]
    /\ UNCHANGED <<buildVars, validateVars, sessions, cdr_records, graph_data,
                   record_count, session_cache, wrapper, inflight>>

Next ==
    \/ \E sid \in SessionIds : \E fault \in {"none", "commit"} :
          CreateSession(sid, fault)
    \/ \E sid \in SessionIds : \E file \in FileInputs : \E fault \in Faults :
          Ingest(sid, file, fault)
    \/ \E sid \in SessionIds : \E files \in FileLists : IngestManyBegin(sid, files)
    \/ \E fault \in Faults : IngestManyFile(fault)
    \/ IngestManyReturn

Spec == Init /\ [][Next]_vars

\* The graph _update_graph builds from all the records of session sid.
GraphOfAll(sid) == BuildGraph(cdr_records[sid])

\* C2: when create_session or an ingest has succeeded, the graph stored for
\* the session is the serialized graph built from all the records persisted
\* for the session, those of earlier batches included.
C2_StoredGraphIsGraphOfAllRecords ==
    (last.ok /\ last.op \in {"create_session", "ingest", "ingest_many_file"}) =>
        /\ GraphOfAll(last.sid).ok
        /\ graph_data[last.sid] = GraphToJson(GraphOfAll(last.sid).G)

\* An ingest succeeded into a session that held records already, and an edge
\* of the stored graph counts calls of the earlier batch and of this one.
C2_Witness ==
    /\ last.op = "ingest" /\ last.ok
    /\ last.before >= 1 /\ last.returned >= 1
    /\ \E k \in DOMAIN graph_data[last.sid].edges :
          graph_data[last.sid].edges[k].weight > last.returned

C4_RecordCountIsTotal ==
    (last.ok /\ last.op \in {"ingest", "ingest_many_file"}) =>
        /\ record_count[last.sid] = Len(cdr_records[last.sid])
        /\ Len(cdr_records[last.sid]) = last.before + last.returned

\* An ingest of two valid rows succeeded into a session that held records.
C4_Witness ==
    /\ last.op = "ingest" /\ last.ok
    /\ last.before >= 1 /\ last.returned >= 2
    /\ record_count[last.sid] = last.before + last.returned

RECURSIVE SumAccepted(_)
\* The accepted counts of the files that succeeded, summed.
SumAccepted(done) ==
    IF done = <<>> THEN 0
    ELSE (IF Head(done).ok THEN Head(done).returned ELSE 0) + SumAccepted(Tail(done))

\* C8: process_multiple_cdr_files takes the files one at a time in the
\* order given; a file that fails adds nothing and the next file is taken;
\* the call returns, without raising, once every file was taken, and returns
\* the sum of the accepted counts (the valid rows) of the files that
\* succeeded.
C8_IngestManySumsSuccesses ==
    /\ many.active =>
          /\ Len(many.done) + Len(many.files) = Len(many.all)
          /\ \A i \in DOMAIN many.done : many.done[i].file = many.all[i]
          /\ \A i \in DOMAIN many.files :
                many.files[i] = many.all[Len(many.done) + i]
          /\ many.total_records = SumAccepted(many.done)
    /\ last.op = "ingest_many" =>
          /\ last.ok
          /\ Len(last.done) = Len(last.files)
          /\ \A i \in DOMAIN last.done :
                /\ last.done[i].file = last.files[i]
                /\ last.done[i].ok => last.done[i].returned = RowsOf(last.files[i])
                /\ ~last.done[i].ok => last.done[i].returned = 0
          /\ last.returned = SumAccepted(last.done)

\* A call returned the count of its second file after its first file failed.
C8_Witness ==
    /\ last.op = "ingest_many"
    /\ Len(last.done) = 2
    /\ ~last.done[1].ok /\ last.done[2].ok
    /\ last.returned = last.done[2].returned /\ last.returned >= 1

-----------------------------------------------------------------------------
(***************************************************************************)
(* SpecIngest: ingest of text files whose headers are those of the         *)
(* detailed format, or lack some of them, or are standard ones.  The       *)
(* cells of a row are the texts of the file under the names that line 129  *)
(* gives their columns.                                                    *)
(***************************************************************************)

MaxLines == 2

Cells(a, b, ct, d, tm, dur) ==
    [anumber |-> a, bnumber |-> b, call_type |-> ct, date |-> d, time |-> tm,
     duration |-> dur]

\* The table that reading a text file gives, lines 300-404.
TextFile(headers, table) ==
    [readable |-> TRUE,
     columns |-> {excel_column_mapping(clean_column_name(h)) : h \in headers},
     rows |-> table]

DetailedHeaders ==
    {"% A Number", "% B Number", "% CallType", "% Date", "% Time", "% Duration"}

ExampleCells ==
    Cells("+6281234", "+6285678", "Voice MO", "01/Jan/24", "10:00:00", "00:30")

ExampleDetailed == TextFile(DetailedHeaders, <<ExampleCells>>)

\* Date texts that no pattern of lines 147 and 258-270 parses.
MalformedDates == {"n/a"}

CellInputs ==
    {ExampleCells,
     Cells("+6285678", "+6281234", "Voice MO", "02/Jan/24", "10:00:00", "30"),
     Cells("+6281234", "+8331", "Voice MO", "01/Jan/24", "10:00:00", "30"),
     Cells("+6281234", "+6285678", "Voice MO", "n/a", "10:00:00", "30")}

\* Header rows that lack columns: each detailed header in turn, and two
\* rows of plain names, without call_type and without the numbers.
HeaderInputs ==
    {DetailedHeaders \ {h} : h \in DetailedHeaders}
    \cup {{"anumber", "bnumber", "timestamp", "call_duration"},
          {"calltype", "Date", "Time", "call_duration"}}

ImportInputs ==
    {TextFile(DetailedHeaders, table) :
        table \in UNION {[1..n -> CellInputs] : n \in 1..MaxLines}}
    \cup {TextFile(headers, <<ExampleCells>>) : headers \in HeaderInputs}

NextIngest ==
    \/ \E sid \in SessionIds : CreateSession(sid, "none")
    \/ \E sid \in SessionIds : \E file \in ImportInputs : \E fault \in Faults :
          Ingest(sid, file, fault)

SpecIngest == Init /\ [][NextIngest]_vars

\* The file of the ingest that `last` tells of.
LastFile == last.files[1]

LastIsIngest == last.op \in {"ingest", "ingest_many_file"}

\* C11: an ingest of a readable file with the required columns of which no
\* row survives validation fails with the error "no valid records" and
\* adds no record to the session; every ingest that succeeds returns an
\* accepted count of at least 1.
C11_NoValidRecordsFails ==
    LastIsIngest =>
        /\ (LastFile.readable /\ Standardized(LastFile).ok
            /\ required_columns \subseteq Standardized(LastFile).columns
            /\ RowsOf(LastFile) = 0) =>
              /\ ~last.ok
              /\ last.error = "no_valid_records"
              /\ Persisted = last.before
        /\ last.ok => last.returned >= 1

\* An ingest into a session that holds records failed because the file,
\* which has rows, has no valid row.
C11_Witness ==
    /\ last.op = "ingest" /\ ~last.ok /\ last.error = "no_valid_records"
    /\ last.before >= 1
    /\ Len(LastFile.rows) >= 1

\* The names of a file's columns after normalization.
NormalizedColumns(file) == {column_mapping(col) : col \in file.columns}

\* C12: an ingest of a readable file, detailed or standard, that lacks one
\* of the five required columns after the normalization of the column names
\* fails with the error that names the missing columns, and adds no record.
C12_MissingColumnsIsSchemaError ==
    (LastIsIngest /\ LastFile.readable
     /\ ~(required_columns \subseteq NormalizedColumns(LastFile))) =>
        /\ ~last.ok
        /\ last.error = "missing_columns"
        /\ Persisted = last.before

\* C13: the ingest of the detailed file with the one row
\* +6281234,+6285678,Voice MO,01/Jan/24,10:00:00,00:30 that succeeds persists
\* one record with anumber 6281234, bnumber 85678, the instant
\* 2024-01-01T10:00:00 and duration 30.
C13_DetailedExampleRecord ==
    (last.op = "ingest" /\ last.ok /\ LastFile = ExampleDetailed) =>
        /\ last.returned = 1
        /\ LET record == cdr_records[last.sid][Len(cdr_records[last.sid])]
           IN  /\ record.anumber = "6281234"
               /\ record.bnumber = "85678"
               /\ IsoFormat(record.date) = "2024-01-01T10:00:00"
               /\ record.duration = 30

\* Every row of the file has a date text that no pattern parses.
AllDatesMalformed(file) ==
    /\ file.readable
    /\ required_columns \subseteq NormalizedColumns(file)
    /\ file.rows # <<>>
    /\ \A i \in DOMAIN file.rows : file.rows[i].date \in MalformedDates

\* C14: an ingest of a file whose date column holds nothing but malformed
\* texts fails with the format error (which counts the rows), and adds no
\* record.
C14_AllDatesMalformedIsFormatError ==
    (LastIsIngest /\ AllDatesMalformed(LastFile)) =>
        /\ ~last.ok
        /\ last.error = "format"
        /\ Persisted = last.before

-----------------------------------------------------------------------------
(***************************************************************************)
(* SpecQuery: get_graph_data, with and without filter options, on the      *)
(* graphs of sessions that files were ingested into.                       *)
(***************************************************************************)

\* Lines 336-338: the filters are applied to truthy filter_options only.
Filtered(stored, filter_options) ==
    IF filter_options.keys # {} THEN ApplyFilters(stored, filter_options)
    ELSE stored

\* get_graph_data, lines 324-340: [ok, error, graph].
GetGraphData(db, sid, filter_options) ==
    IF sid \notin db.sessions
    THEN [ok |-> FALSE, error |-> "not_found", graph |-> EmptyGraphJson]
    ELSE [ok |-> TRUE, error |-> "",
          graph |-> Filtered(db.graph_data[sid], filter_options)]

\* The database after get_graph_data, had it stored the graph it returns.
AfterGetGraphDataStored(db, sid, r) ==
    IF r.ok THEN [db EXCEPT !.graph_data[sid] = r.graph] ELSE db

\* The database after get_graph_data gave r: lines 324-340 write nothing.
AfterGetGraphData(db, sid, r) == db

\* A get_graph_data call that gave r.
Answered(sid, filter_options, r) ==
    /\ Commit(AfterGetGraphData(Database, sid, r))
    /\ last' = [Returned("query", sid, r.ok, r.error, 0, PersistedIn(sid))
                    EXCEPT !.options = filter_options, !.graph = r.graph]

\* query_graph: get_graph_data for one session.
Query(sid, filter_options) ==
    /\ ~many.active
    /\ Answered(sid, filter_options, GetGraphData(Database, sid, filter_options))
    /\ UNCHANGED <<buildVars, validateVars, many, session_cache, wrapper,
                   inflight>>

\* Three calls between two numbers at three instants, one with a device and
\* one with a cell, and a GPRS row whose number has no edge.
CallAt1 == Row("Voice MO", "6281", "6285", 1, "30")

CallAt2 == [Row("Voice MO", "6281", "6285", 2, "30") EXCEPT !.imei = "3501"]

CallAt3 == [Row("Voice MO", "6285", "6281", 3, "30") EXCEPT !.lac_ci = "4401"]

GprsAlone == Row("GPRS", "6289", "000", 1, "0")

QueryFiles ==
    {Table(<<CallAt1>>), Table(<<CallAt2>>), Table(<<CallAt3>>), Table(<<GprsAlone>>)}

Options(keys, node_types, start, end) ==
    [keys |-> keys, node_types |-> node_types, start |-> start, end |-> end]

QueryOptions ==
    {NoOptions}
    \cup {Options({"node_types"}, types, NULL, NULL) :
            types \in {{"phone"}, {"phone", "imei"}, {}}}
    \cup {Options({"date_range"}, {}, range[1], range[2]) :
            range \in {<<IsoFormat(2), IsoFormat(2)>>, <<NULL, IsoFormat(1)>>,
                       <<IsoFormat(3), "">>, <<NULL, NULL>>}}
    \cup {Options({"node_types", "date_range"}, {"phone", "location"},
                  IsoFormat(2), IsoFormat(3))}

NextQuery ==
    \/ \E sid \in SessionIds : CreateSession(sid, "none")
    \/ \E sid \in SessionIds : \E file \in QueryFiles : Ingest(sid, file, "none")
    \/ \E sid \in SessionIds : \E filter_options \in QueryOptions :
          Query(sid, filter_options)

SpecQuery == Init /\ [][NextQuery]_vars

\* A query has returned a graph.
Queried == last.op = "query" /\ last.ok

\* The graph stored for the session of the last call.
StoredGraph == graph_data[last.sid]

\* The type of the node with this id in a serialized graph.
TypeIn(J, id) == (CHOOSE i \in DOMAIN J.nodes : J.nodes[i].id = id).type

\* The node passes the node_types filter of the options, if there is one.
Allowed(J, id, filter_options) ==
    "node_types" \in filter_options.keys =>
        \E i \in DOMAIN J.nodes :
            J.nodes[i].id = id /\ J.nodes[i].type \in filter_options.node_types

\* The options hold a date_range with a bound.
HasDateBound(filter_options) ==
    /\ "date_range" \in filter_options.keys
    /\ (Truthy(filter_options.start) \/ Truthy(filter_options.end))

\* start <= the call's timestamp <= end, a missing bound being no bound.
Within(call, filter_options) ==
    /\ Truthy(filter_options.start) =>
          IsoOrder(filter_options.start) <= IsoOrder(call.date)
    /\ Truthy(filter_options.end) =>
          IsoOrder(call.date) <= IsoOrder(filter_options.end)

\* The calls of a stored edge that lie within the date_range.
CallsWithin(edge, filter_options) ==
    SelectSeq(edge.calls, LAMBDA call : Within(call, filter_options))

\* Every node of the serialized graph is an endpoint of one of its edges.
NoIsolatedNode(J) ==
    \A i \in DOMAIN J.nodes :
        \E k \in DOMAIN J.edges : J.nodes[i].id \in {J.edges[k].source, J.edges[k].target}

\* C15: a query with a date_range that has a bound keeps, of every stored
\* `calls` edge whose endpoints pass the node_types filter, exactly the calls
\* with start <= timestamp <= end: such an edge with no call in the range is
\* not in the answer, any other is in the answer once, with the calls in
\* the range as its calls and their number as its weight; and no node of
\* the answer is left without an edge.
C15_DateRangeInclusive ==
    (Queried /\ HasDateBound(last.options)) =>
        /\ \A k \in DOMAIN StoredGraph.edges :
              LET edge == StoredGraph.edges[k]
                  within == CallsWithin(edge, last.options)
                  answer == EdgesBetween(last.graph, edge.source, edge.target)
              IN  (/\ edge.relationship = "calls"
                   /\ Allowed(StoredGraph, edge.source, last.options)
                   /\ Allowed(StoredGraph, edge.target, last.options)) =>
                      IF within = <<>> THEN answer = {}
                      ELSE /\ Cardinality(answer) = 1
                           /\ \A a \in answer :
                                 /\ last.graph.edges[a].calls = within
                                 /\ last.graph.edges[a].weight = Len(within)
        /\ NoIsolatedNode(last.graph)

\* A stored edge with calls at three instants, and the answer to the query
\* for [t2, t2] with that edge at weight 1 and the call at t2.
C15_Witness ==
    /\ Queried
    /\ last.options.start = IsoFormat(2) /\ last.options.end = IsoFormat(2)
    /\ \E k \in DOMAIN StoredGraph.edges : StoredGraph.edges[k].weight = 3
    /\ \E a \in DOMAIN last.graph.edges :
          /\ last.graph.edges[a].weight = 1
          /\ Len(last.graph.edges[a].calls) = 1
          /\ last.graph.edges[a].calls[1].date = IsoFormat(2)

StillHasEdge(id) ==
    \E k \in DOMAIN StoredGraph.edges :
        LET edge == StoredGraph.edges[k]
        IN  /\ id \in {edge.source, edge.target}
            /\ edge.source # edge.target
            /\ Allowed(StoredGraph, edge.source, last.options)
            /\ Allowed(StoredGraph, edge.target, last.options)
            /\ HasDateBound(last.options) => CallsWithin(edge, last.options) # <<>>

C19_QueryLeavesStoreAlone ==
    [][last'.op = "query" =>
          /\ UNCHANGED <<sessions, cdr_records, graph_data, record_count>>
          /\ (last'.ok /\ last'.options.keys = {}) =>
                last'.graph = graph_data[last'.sid]]_vars

\* A query with filter options returned a graph that is not the stored
\* one, and the session still has its stored graph and its records.
C19_Witness ==
    /\ Queried /\ last.options.keys # {}
    /\ last.graph # StoredGraph
    /\ Len(StoredGraph.edges) >= 2
    /\ record_count[last.sid] >= 2

\* Every `calls` edge of the serialized graph has as weight the length of its
\* call list, and at least 1.
WeightIsCallCount(J) ==
    \A k \in DOMAIN J.edges :
        J.edges[k].relationship = "calls" =>
            /\ J.edges[k].weight = Len(J.edges[k].calls)
            /\ J.edges[k].weight >= 1

\* C26: in every graph stored for a session, and in every graph a query
\* returns whatever its node_types and date_range options, each `calls` edge
\* has a weight equal to the length of its call list, and at least 1.
C26_CallsWeightIsCallCount ==
    /\ \A sid \in sessions : WeightIsCallCount(graph_data[sid])
    /\ Queried => WeightIsCallCount(last.graph)

\* A query with both options returned a `calls` edge of two calls out of the
\* three the stored edge has.
C26_Witness ==
    /\ Queried
    /\ last.options.keys = {"node_types", "date_range"}
    /\ \E k \in DOMAIN StoredGraph.edges :
          StoredGraph.edges[k].relationship = "calls" /\ StoredGraph.edges[k].weight = 3
    /\ \E k \in DOMAIN last.graph.edges :
          /\ last.graph.edges[k].relationship = "calls"
          /\ last.graph.edges[k].weight = 2
          /\ Len(last.graph.edges[k].calls) = 2

-----------------------------------------------------------------------------
(***************************************************************************)
(* SpecSessions: the life of two sessions on one SessionManager:           *)
(* create_session, get_session, session_exists and delete_session, lines   *)
(* 30-135, with ingests and queries between them.  A lookup of the         *)
(* database may raise a connection error (OperationalError or              *)
(* DisconnectionError) or another exception.                               *)
(***************************************************************************)
LifecycleIds == {"s1", "s2"}

LookupFaults == {"none", "connection", "other"}

DeleteFaults == {"none", "query", "commit"}

\* get_session, lines 55-68: [value, cache].
GetSession(db, cache, sid, fault) ==
    IF fault = "connection"
    THEN [value |-> IF sid \in cache THEN "True" ELSE "False", cache |-> cache]
    ELSE IF fault = "other" THEN [value |-> "None", cache |-> cache]
    ELSE IF sid \in db.sessions
    THEN [value |-> "Session", cache |-> cache \cup {sid}]
    ELSE [value |-> "None", cache |-> cache]

\* session_exists, lines 74-109: [value, cache].
SessionExists(db, cache, sid, has_db, fault) ==
    IF sid \in cache THEN [value |-> "True", cache |-> cache]
    ELSE IF ~has_db THEN [value |-> "True", cache |-> cache]
    ELSE IF fault = "connection" THEN [value |-> "True", cache |-> cache]
    ELSE IF fault = "other" THEN [value |-> "False", cache |-> cache]
    ELSE IF sid \in db.sessions
    THEN [value |-> "True", cache |-> cache \cup {sid}]
    ELSE [value |-> "False", cache |-> cache]

\* f without its value at k.
Without(f, k) == [x \in DOMAIN f \ {k} |-> f[x]]

\* The deletion that deletes the session and leaves its records.
DeleteRowsOfSessionOnly(db, sid) ==
    [db EXCEPT !.sessions = @ \ {sid},
               !.graph_data = Without(@, sid),
               !.record_count = Without(@, sid)]

\* Lines 119-123: the records of the session are deleted, then the session,
\* and the deletion is committed.
DeleteRows(db, sid) ==
    [sessions |-> db.sessions \ {sid},
     cdr_records |-> Without(db.cdr_records, sid),
     graph_data |-> Without(db.graph_data, sid),
     record_count |-> Without(db.record_count, sid)]

\* The cache, had delete_session left it alone.
CacheAfterDeleteKept(cache, sid) == cache

\* Lines 125-127.
CacheAfterDelete(cache, sid) == cache \ {sid}

\* delete_session, lines 111-135: [ok, value, db, cache]; an exception is
\* raised again after the rollback of line 133.
DeleteSession(db, cache, sid, fault) ==
    IF fault = "query"
    THEN [ok |-> FALSE, value |-> "", db |-> db, cache |-> cache]
    ELSE IF sid \notin db.sessions
    THEN [ok |-> TRUE, value |-> "False", db |-> db, cache |-> cache]
    ELSE IF fault = "commit"
    THEN [ok |-> FALSE, value |-> "", db |-> db, cache |-> cache]
    ELSE [ok |-> TRUE, value |-> "True", db |-> DeleteRows(db, sid),
          cache |-> CacheAfterDelete(cache, sid)]

\* What a lookup or a deletion returned.
Looked(op, sid, ok, value, fault) ==
    [Returned(op, sid, ok, IF ok THEN "" ELSE "database", 0, PersistedIn(sid))
        EXCEPT !.value = value, !.fault = fault]

\* A get_session call that gave r.
GotSession(sid, fault, r) ==
    /\ session_cache' = r.cache
    /\ last' = Looked("get_session", sid, TRUE, r.value, fault)

Lookup(sid, fault) ==
    /\ ~many.active
    /\ GotSession(sid, fault, GetSession(Database, session_cache, sid, fault))
    /\ UNCHANGED <<buildVars, validateVars, sessions, cdr_records, graph_data,
                   record_count, many, wrapper, inflight>>

\* A session_exists call that gave r.
Existed(sid, has_db, fault, r) ==
    /\ session_cache' = r.cache
    /\ last' = Looked("session_exists", sid, TRUE, r.value,
                      IF has_db THEN fault ELSE "no_db")

Exists(sid, has_db, fault) ==
    /\ ~many.active
    /\ Existed(sid, has_db, fault,
               SessionExists(Database, session_cache, sid, has_db, fault))
    /\ UNCHANGED <<buildVars, validateVars, sessions, cdr_records, graph_data,
                   record_count, many, wrapper, inflight>>

\* A delete_session call that gave r.
Deleted(sid, fault, r) ==
    /\ Commit(r.db)
    /\ session_cache' = r.cache
    /\ last' = Looked("delete_session", sid, r.ok, r.value, fault)

Delete(sid, fault) ==
    /\ ~many.active
    /\ Deleted(sid, fault, DeleteSession(Database, session_cache, sid, fault))
    /\ UNCHANGED <<buildVars, validateVars, many, wrapper, inflight>>

\* A file with a valid row and a file without one.
LifecycleFiles == {Table(<<VoiceAB>>), Table(<<VoiceShort>>)}

NextSessions ==
    \/ \E sid \in LifecycleIds : \E fault \in {"none", "commit", "refresh"} :
          CreateSession(sid, fault)
    \/ \E sid \in LifecycleIds : \E file \in LifecycleFiles :
          \E fault \in {"none", "begin"} : Ingest(sid, file, fault)
    \/ \E sid \in LifecycleIds : Query(sid, NoOptions)
    \/ \E sid \in LifecycleIds : \E fault \in LookupFaults : Lookup(sid, fault)
    \/ \E sid \in LifecycleIds : \E has_db \in BOOLEAN : \E fault \in LookupFaults :
          Exists(sid, has_db, fault)
    \/ \E sid \in LifecycleIds : \E fault \in DeleteFaults : Delete(sid, fault)

SpecSessions == Init /\ [][NextSessions]_vars

\* The tables of the store.
tables == <<sessions, cdr_records, graph_data, record_count>>

\* The step is a call `op` for a session that does not exist.
ForUnknown(op) == last'.op = op /\ last'.sid \notin sessions

\* C22: a delete_session that succeeds for a session leaves no record of
\* that session and no session of that id, in persistence and in the cache,
\* and leaves the other sessions and their records as they were; a
\* delete_session for an unknown session returns False, and it and a
\* delete_session that raises change nothing; get_session and session_exists
\* with a database handle, when the database answers, do not find a session
\* that does not exist.
C22_DeleteSessionCascades ==
    [][/\ (last'.op = "delete_session" /\ last'.ok /\ last'.sid \in sessions) =>
            /\ last'.value = "True"
            /\ last'.sid \notin sessions'
            /\ last'.sid \notin DOMAIN cdr_records'
            /\ last'.sid \notin session_cache'
            /\ sessions' = sessions \ {last'.sid}
            /\ \A other \in sessions' :
                  /\ cdr_records'[other] = cdr_records[other]
                  /\ graph_data'[other] = graph_data[other]
                  /\ record_count'[other] = record_count[other]
       /\ (last'.op = "delete_session" /\ ~last'.ok) =>
            UNCHANGED <<tables, session_cache>>
       /\ ForUnknown("delete_session") =>
            /\ last'.fault = "none" => (last'.ok /\ last'.value = "False")
            /\ UNCHANGED <<tables, session_cache>>
       /\ (ForUnknown("get_session") /\ last'.fault = "none") =>
            last'.value = "None"
       /\ (ForUnknown("session_exists") /\ last'.fault = "none") =>
            last'.value = "False"]_vars

\* A session with a record was deleted, and another session has its record.
C22_Witness ==
    /\ last.op = "delete_session" /\ last.ok /\ last.value = "True"
    /\ last.before >= 1
    /\ last.sid \notin sessions
    /\ \E other \in sessions : Len(cdr_records[other]) >= 1

C24_SessionExistsTellsExistence ==
    last.op = "session_exists" => (last.value = "True" <=> last.sid \in sessions)

\* C28: every id in the cache is the id of a session that exists in
\* persistence.
C28_CacheHoldsExistingSessions == session_cache \subseteq sessions

\* A session was deleted: it is out of persistence and out of the cache,
\* and the other session is in both.
C28_Witness ==
    /\ last.op = "delete_session" /\ last.ok /\ last.value = "True"
    /\ last.sid \notin sessions
    /\ session_cache # {} /\ session_cache = sessions

\* C29: get_session returns the session of the id asked for, or None, and
\* never a boolean, whatever the database did.
C29_GetSessionReturnsSessionOrNone ==
    last.op = "get_session" =>
        /\ last.value \in {"Session", "None"}
        /\ last.value = "Session" => last.sid \in sessions

-----------------------------------------------------------------------------
(***************************************************************************)
(* SpecRace: two requests in add_cdr_data for one session, each with its   *)
(* own database session and nothing to serialize them.  A call is four     *)
(* steps, each a committed transaction or a read of what is committed: the *)
(* rows are added and committed (lines 140-172), all the records of the    *)
(* session are read (line 192), the graph built from them is written and   *)
(* committed (lines 194-284), the records are counted and record_count is  *)
(* written and committed (lines 177-179).  The steps of the two requests   *)
(* interleave in any order; `inflight.overlapped` tells whether a call has *)
(* begun while another was under way, `inflight.failed` whether one has    *)
(* raised.                                                                 *)
(***************************************************************************)
RaceFiles == {Table(<<VoiceAB>>), Table(<<GprsData>>)}

\* Some request other than w is in add_cdr_data.
OtherUnderWay(w) == \E o \in Workers \ {w} : inflight.at[o].pc # "idle"

\* Lines 140-172 of a call for an existing session: the rows are committed.
RaceCommitRows(w, sid, file) ==
    /\ inflight.at[w].pc = "idle"
    /\ sid \in sessions
    /\ RowsOf(file) >= 1
    /\ PersistedIn(sid) + RowsOf(file) <= MaxRecords
    /\ Commit(AddRows(Database, sid, ValidRows(Standardized(file))))
    /\ inflight' = [inflight EXCEPT
                      !.at[w] = [pc |-> "committed", sid |-> sid,
                                 df |-> ValidRows(Standardized(file)),
                                 records |-> <<>>],
                      !.overlapped = @ \/ OtherUnderWay(w)]
    /\ UNCHANGED <<buildVars, validateVars, many, last, session_cache, wrapper>>

\* Line 192: the request reads all the records committed for the session.
RaceReadRecords(w) ==
    /\ inflight.at[w].pc = "committed"
    /\ inflight' = [inflight EXCEPT
                      !.at[w].pc = "read",
                      !.at[w].records = QueryRecords(Database, inflight.at[w].sid)]
    /\ UNCHANGED <<buildVars, validateVars, sessions, cdr_records, graph_data,
                   record_count, many, last, session_cache, wrapper>>

\* Lines 194-290 with graphed, what became of the graph of the records read:
\* it is stored, or the exception is raised out of add_cdr_data.
RaceGraphed(w, graphed) ==
    /\ Commit(graphed.db)
    /\ IF graphed.ok
       THEN /\ inflight' = [inflight EXCEPT !.at[w].pc = "written"]
            /\ last' = last
       ELSE /\ inflight' = [inflight EXCEPT !.at[w] = IdleWorker, !.failed = TRUE]
            /\ last' = Returned("ingest", inflight.at[w].sid, FALSE, "graph", 0,
                                PersistedIn(inflight.at[w].sid))

RaceWriteGraph(w) ==
    /\ inflight.at[w].pc = "read"
    /\ RaceGraphed(w, StoreGraph(Database, inflight.at[w].sid, "none",
                                 BuildGraph(inflight.at[w].records)))
    /\ UNCHANGED <<buildVars, validateVars, many, session_cache, wrapper>>

\* Lines 177-181: record_count is the count of the records committed, and
\* the call returns len(cdr_df).
RaceCountRecords(w) ==
    /\ inflight.at[w].pc = "written"
    /\ record_count' =
          [record_count EXCEPT ![inflight.at[w].sid] =
              CountRecords(Database, inflight.at[w].sid, inflight.at[w].df)]
    /\ inflight' = [inflight EXCEPT !.at[w] = IdleWorker]
    /\ last' = Returned("ingest", inflight.at[w].sid, TRUE, "",
                        Len(inflight.at[w].df), PersistedIn(inflight.at[w].sid))
    /\ UNCHANGED <<buildVars, validateVars, sessions, cdr_records, graph_data,
                   many, session_cache, wrapper>>

NextRace ==
    \/ \E sid \in SessionIds : CreateSession(sid, "none")
    \/ \E w \in Workers : \E sid \in SessionIds : \E file \in RaceFiles :
          RaceCommitRows(w, sid, file)
    \/ \E w \in Workers : RaceReadRecords(w)
    \/ \E w \in Workers : RaceWriteGraph(w)
    \/ \E w \in Workers : RaceCountRecords(w)

SpecRace == Init /\ [][NextRace]_vars

\* No request is in add_cdr_data.
AllIdle == \A w \in Workers : inflight.at[w].pc = "idle"

\* The graph stored for the session is the graph of all its records.
StoresGraphOfAll(sid) ==
    /\ GraphOfAll(sid).ok
    /\ graph_data[sid] = GraphToJson(GraphOfAll(sid).G)

\* Two ingests that overlapped have both returned, none has raised, and the
\* graph stored is the graph of the records without the last one.
RaceLostRecords ==
    /\ AllIdle /\ inflight.overlapped /\ ~inflight.failed
    /\ \E sid \in sessions :
          /\ GraphOfAll(sid).ok
          /\ Len(cdr_records[sid]) >= 2
          /\ graph_data[sid] # GraphToJson(GraphOfAll(sid).G)
          /\ graph_data[sid] =
                GraphToJson(BuildGraph(SubSeq(cdr_records[sid], 1,
                                              Len(cdr_records[sid]) - 1)).G)

\* Ingests that ran one after another and did not raise left the graph of
\* all the records.
SerialAndSucceeded ==
    (AllIdle /\ ~inflight.overlapped /\ ~inflight.failed) =>
        \A sid \in sessions : StoresGraphOfAll(sid)

-----------------------------------------------------------------------------
(***************************************************************************)
(* SpecRetry: one function wrapped by handle_db_connection(max_retries),   *)
(* app/database.py lines 44-61.  A call of the wrapped function returns a  *)
(* result or raises; what it does is the input of each turn of the loop.   *)
(* `wrapper` holds max_retries, the local `retries`, the outcomes of the   *)
(* calls of the function made so far, and how the wrapper ended.           *)
(***************************************************************************)
MaxRetries == 5

\* The exceptions of the `except` clause of line 53.
ConnectionErrors == {"OperationalError", "DisconnectionError"}

\* What a call of the wrapped function can do.
FuncOutcomes == {"result", "ValueError"} \cup ConnectionErrors

\* Line 49: the wrapper is called; retries = 0.
WrapperCall(max_retries) ==
    /\ wrapper.state = "idle"
    /\ wrapper' = [state |-> "running", max_retries |-> max_retries, retries |-> 0,
                   calls |-> <<>>, result |-> ""]
    /\ UNCHANGED <<buildVars, validateVars, storeVars>>

\* The handler, had it raised only once retries exceeds max_retries.
AfterConnectionErrorOneMore(w, error) ==
    IF w.retries + 1 > w.max_retries
    THEN [w EXCEPT !.retries = @ + 1, !.state = "raised", !.result = error]
    ELSE [w EXCEPT !.retries = @ + 1]

\* Lines 54-59: the handler of a connection error; it raises the error
\* again or sleeps and leaves the wrapper at the loop test.
AfterConnectionError(w, error) ==
    IF w.retries + 1 >= w.max_retries
    THEN [w EXCEPT !.retries = @ + 1, !.state = "raised", !.result = error]
    ELSE [w EXCEPT !.retries = @ + 1]

\* Lines 51-59 with the outcome of func(*args, **kwargs): its result is
\* returned, a connection error is handled, any other exception leaves the
\* wrapper as it is raised.
AfterCall(w, outcome) ==
    IF outcome = "result" THEN [w EXCEPT !.state = "returned", !.result = outcome]
    ELSE IF outcome \in ConnectionErrors THEN AfterConnectionError(w, outcome)
    ELSE [w EXCEPT !.state = "raised", !.result = outcome]

\* One turn of the loop of lines 50-59.
WrapperTry(outcome) ==
    /\ wrapper.state = "running"
    /\ wrapper.retries < wrapper.max_retries
    /\ wrapper' = AfterCall([wrapper EXCEPT !.calls = Append(@, outcome)], outcome)
    /\ UNCHANGED <<buildVars, validateVars, storeVars>>

\* Line 50 when the test fails: the wrapper ends without a return statement.
WrapperFallThrough ==
    /\ wrapper.state = "running"
    /\ ~(wrapper.retries < wrapper.max_retries)
    /\ wrapper' = [wrapper EXCEPT !.state = "returned", !.result = "None"]
    /\ UNCHANGED <<buildVars, validateVars, storeVars>>

\* The caller has the wrapper's outcome; the wrapper can be called again.
WrapperDone ==
    /\ wrapper.state \in {"returned", "raised"}
    /\ wrapper' = NoWrapped
    /\ UNCHANGED <<buildVars, validateVars, storeVars>>

WrapperStep == (\E outcome \in FuncOutcomes : WrapperTry(outcome)) \/ WrapperFallThrough

NextRetry ==
    \/ \E max_retries \in 0..MaxRetries : WrapperCall(max_retries)
    \/ \E outcome \in FuncOutcomes : WrapperTry(outcome)
    \/ WrapperFallThrough
    \/ WrapperDone

\* A call of the wrapped function ends, so a wrapper that is in its loop
\* takes the next step of it.
SpecRetry == Init /\ [][NextRetry]_vars /\ WF_vars(WrapperStep)

\* The calls before the last were all connection errors.
EarlierAllConnectionErrors ==
    \A i \in 1..(Len(wrapper.calls) - 1) : wrapper.calls[i] \in ConnectionErrors

WrapperEnded == wrapper.state \in {"returned", "raised"}

\* What C30 says of a wrapper with max_retries >= 1 at one moment.
RetryBounded ==
    wrapper.max_retries >= 1 =>
        /\ Len(wrapper.calls) <= wrapper.max_retries
        /\ wrapper.state = "running" =>
              /\ Len(wrapper.calls) < wrapper.max_retries
              /\ \A i \in DOMAIN wrapper.calls : wrapper.calls[i] \in ConnectionErrors
        /\ WrapperEnded =>
              /\ Len(wrapper.calls) >= 1
              /\ EarlierAllConnectionErrors
              /\ wrapper.result = wrapper.calls[Len(wrapper.calls)]
              /\ wrapper.state = "returned" <=> wrapper.result = "result"
              /\ wrapper.result \in ConnectionErrors =>
                    Len(wrapper.calls) = wrapper.max_retries

\* C30: a function wrapped with max_retries = n >= 1 is called at least
\* once and at most n times; the wrapper returns the result of the first
\* call that succeeds, raises the connection error again after the n-th
\* connection failure in a row, lets any other exception through the first
\* time it occurs, and always comes to an end.
C30_RetryWrapper ==
    /\ []RetryBounded
    /\ (wrapper.state = "running" /\ wrapper.max_retries >= 1) ~> WrapperEnded

\* A wrapper with max_retries 3 returned the result of its third call after
\* two connection errors.
C30_Witness ==
    /\ wrapper.state = "returned"
    /\ wrapper.max_retries = 3
    /\ Len(wrapper.calls) = 3
    /\ wrapper.calls[1] \in ConnectionErrors /\ wrapper.calls[2] \in ConnectionErrors
    /\ wrapper.result = "result"

=============================================================================
